---- MODULE Spec2Model ----
(***************************************************************************)
(* Model of the plan REST API (express handlers over a Redis key-value     *)
(* store) of src/.history/index_20241102110332.js, the latest revision of  *)
(* index.js, with the schema of src/unnamed/part_002.                      *)
(*                                                                         *)
(* A JSON value is a record [t, v]: t is the JSON type and v the payload.  *)
(* An object keeps its members as a sequence of <<key, value>> pairs in    *)
(* insertion order, because JSON.stringify writes them in that order and   *)
(* the entity tag is a digest of the written text.  A JSON text (what      *)
(* Redis stores) is a sequence of tokens.                                  *)
(***************************************************************************)
EXTENDS Integers, Sequences, FiniteSets, TLC

\* ------------------------------------------------------------------------
\* JSON values
\* ------------------------------------------------------------------------
\* A string holds its text and a number its decimal digits, both as a
\* one-element sequence, so that every payload is a sequence.
Str(s) == [t |-> "string", v |-> <<s>>]
Num(n) == [t |-> "number", v |-> <<ToString(n)>>]
Obj(members) == [t |-> "object", v |-> members]
Arr(items) == [t |-> "array", v |-> items]

\* The JavaScript value undefined: an absent body, an absent property.
Undefined == [t |-> "undefined", v |-> <<>>]

\* Largest number literal the bodies of the model use.
MaxNumber == 3

HasKey(o, k) == \E i \in 1..Len(o.v) : o.v[i][1] = k

\* o[k] of JavaScript: the member's value, undefined when there is none.
Prop(o, k) ==
  IF HasKey(o, k)
  THEN o.v[CHOOSE i \in 1..Len(o.v) : o.v[i][1] = k][2]
  ELSE Undefined

\* Assignment o[k] = x on a member list: an existing key keeps its place,
\* a new key goes last.
SetMember(members, k, x) ==
  IF \E i \in 1..Len(members) : members[i][1] = k
  THEN [i \in 1..Len(members) |->
          IF members[i][1] = k THEN <<k, x>> ELSE members[i]]
  ELSE Append(members, <<k, x>>)

RECURSIVE SpreadInto(_, _)
SpreadInto(members, more) ==
  IF more = <<>> THEN members
  ELSE SpreadInto(SetMember(members, Head(more)[1], Head(more)[2]), Tail(more))

\* Faulty variant: a deep merge, in which an object of b is merged into the
\* object a has under the same key instead of replacing it.
Spread_Deep(a, b) ==
  Obj(SpreadInto(a.v,
        [i \in 1..Len(b.v) |->
           IF b.v[i][2].t = "object" /\ Prop(a, b.v[i][1]).t = "object"
           THEN <<b.v[i][1],
                  Obj(SpreadInto(Prop(a, b.v[i][1]).v, b.v[i][2].v))>>
           ELSE b.v[i]]))

\* { ...a, ...b }: the members of a, overwritten and extended by those of b,
\* top level only.
Spread(a, b) == Obj(SpreadInto(a.v, b.v))

\* ------------------------------------------------------------------------
\* JSON.stringify and JSON.parse
\* ------------------------------------------------------------------------
RECURSIVE JSONstringify(_)
RECURSIVE StringifyMembers(_, _)
RECURSIVE StringifyItems(_, _)

StringifyMembers(members, i) ==
  IF i > Len(members) THEN <<>>
  ELSE (IF i > 1 THEN <<",">> ELSE <<>>)
       \o <<"\"", members[i][1], "\"", ":">>
       \o JSONstringify(members[i][2])
       \o StringifyMembers(members, i + 1)

StringifyItems(items, i) ==
  IF i > Len(items) THEN <<>>
  ELSE (IF i > 1 THEN <<",">> ELSE <<>>)
       \o JSONstringify(items[i])
       \o StringifyItems(items, i + 1)

JSONstringify(x) ==
  CASE x.t = "string" -> <<"\"", x.v[1], "\"">>
    [] x.t = "number" -> <<x.v[1]>>
    [] x.t = "object" -> <<"{">> \o StringifyMembers(x.v, 1) \o <<"}">>
    [] x.t = "array"  -> <<"[">> \o StringifyItems(x.v, 1) \o <<"]">>

\* The number a number token denotes.
NumberOf(tok) == CHOOSE n \in 0..MaxNumber : ToString(n) = tok

RECURSIVE ParseValue(_, _)
RECURSIVE ParseMembers(_, _, _)
RECURSIVE ParseItems(_, _, _)

\* Each parser reads text from position i and returns the value read and the
\* position after it.
ParseMembers(text, i, acc) ==
  CASE text[i] = "}" -> [val |-> Obj(acc), next |-> i + 1]
    [] text[i] = "," -> ParseMembers(text, i + 1, acc)
    [] OTHER ->
         \* "key" : value
         CHOOSE out \in
           {ParseMembers(t, r.next, a) :
              t \in {text},
              r \in {ParseValue(text, i + 4)},
              a \in {SetMember(acc, text[i + 1], ParseValue(text, i + 4).val)}} :
           TRUE

ParseItems(text, i, acc) ==
  CASE text[i] = "]" -> [val |-> Arr(acc), next |-> i + 1]
    [] text[i] = "," -> ParseItems(text, i + 1, acc)
    [] OTHER ->
         CHOOSE out \in
           {ParseItems(t, r.next, a) :
              t \in {text},
              r \in {ParseValue(text, i)},
              a \in {Append(acc, ParseValue(text, i).val)}} : TRUE

ParseValue(text, i) ==
  CASE text[i] = "{"  -> ParseMembers(text, i + 1, <<>>)
    [] text[i] = "["  -> ParseItems(text, i + 1, <<>>)
    [] text[i] = "\"" -> [val |-> Str(text[i + 1]), next |-> i + 3]
    [] OTHER          -> [val |-> Num(NumberOf(text[i])), next |-> i + 1]

JSONparse(text) == ParseValue(text, 1).val

\* ------------------------------------------------------------------------
\* Entity tag
\* ------------------------------------------------------------------------
\* The hex SHA-1 digest of the text.  The digest is taken to be free of
\* collisions: it is the text under a "sha1" label.
generateETag(data) == <<"sha1", data>>

\* ------------------------------------------------------------------------
\* planSchema and the validator Ajv compiles from it
\* ------------------------------------------------------------------------
IsType(x, type) == x.t = type

\* type "object", every key of props present (required lists them all) and
\* no other key (additionalProperties: false).
ObjectOK(x, props) ==
  /\ x.t = "object"
  /\ \A k \in props : HasKey(x, k)
  /\ \A i \in 1..Len(x.v) : x.v[i][1] \in props

CostSharesProps == {"deductible", "_org", "copay", "objectId", "objectType"}

CostSharesOK(x) ==
  /\ ObjectOK(x, CostSharesProps)
  /\ \A k \in CostSharesProps :
       IsType(Prop(x, k), IF k \in {"deductible", "copay"} THEN "number" ELSE "string")

LinkedServiceProps == {"_org", "objectId", "objectType", "name"}

LinkedServiceOK(x) ==
  /\ ObjectOK(x, LinkedServiceProps)
  /\ \A k \in LinkedServiceProps : IsType(Prop(x, k), "string")

PlanServiceProps ==
  {"linkedService", "planserviceCostShares", "_org", "objectId", "objectType"}

PlanServiceOK(x) ==
  /\ ObjectOK(x, PlanServiceProps)
  /\ LinkedServiceOK(Prop(x, "linkedService"))
  /\ CostSharesOK(Prop(x, "planserviceCostShares"))
  /\ \A k \in {"_org", "objectId", "objectType"} : IsType(Prop(x, k), "string")

PlanProps ==
  {"planCostShares", "linkedPlanServices", "_org", "objectId", "objectType",
   "planType", "creationDate"}

validatePlan(data) ==
  /\ ObjectOK(data, PlanProps)
  /\ CostSharesOK(Prop(data, "planCostShares"))
  /\ IsType(Prop(data, "linkedPlanServices"), "array")
  /\ \A i \in 1..Len(Prop(data, "linkedPlanServices").v) :
       PlanServiceOK(Prop(data, "linkedPlanServices").v[i])
  /\ \A k \in {"_org", "objectId", "objectType", "planType", "creationDate"} :
       IsType(Prop(data, k), "string")

\* ------------------------------------------------------------------------
\* Requests the clients send
\* ------------------------------------------------------------------------
CostShares(copay) ==
  Obj(<< <<"deductible", Num(2)>>, <<"_org", Str("example.com")>>,
         <<"copay", Num(copay)>>, <<"objectId", Str("cs")>>,
         <<"objectType", Str("membercostshare")>> >>)

\* A schema-valid plan with the given objectId and copay.
Plan(id, copay) ==
  Obj(<< <<"planCostShares", CostShares(copay)>>,
         <<"linkedPlanServices", Arr(<<>>)>>,
         <<"_org", Str("example.com")>>,
         <<"objectId", Str(id)>>,
         <<"objectType", Str("plan")>>,
         <<"planType", Str("inNetwork")>>,
         <<"creationDate", Str("12-12-2017")>> >>)

\* A plan without its creationDate: the schema rejects it.
PlanWithoutDate(id) ==
  Obj(SubSeq(Plan(id, 1).v, 1, 6))

\* Bodies of POST and PUT requests.
FullBodies == {Plan("k1", 1), Plan("k1", 2), Plan("k2", 1), PlanWithoutDate("k1")}

\* Bodies of PATCH requests: a whole nested object, a nested object with one
\* field only (a deep merge would accept it, the shallow one does not), the
\* identifying field, and nothing.
PatchBodies ==
  { Obj(<< <<"planCostShares", CostShares(3)>> >>),
    Obj(<< <<"planCostShares", Obj(<< <<"copay", Num(2)>> >>)>> >>),
    Obj(<< <<"objectId", Str("k2")>> >>),
    Obj(<<>>) }

\* A conditional header is absent (<<>>) or carries one tag.
NoHeader == <<>>

Header(tag) == <<tag>>

\* The tag a client holds: the one it was given for Plan("k1", 1).  It is the
\* current tag while the store holds that text, and a stale one afterwards.
Headers == {NoHeader, Header(generateETag(JSONstringify(Plan("k1", 1))))}

NoRequest ==
  [op |-> "none", auth |-> "none", objectId |-> "", body |-> Undefined,
   ifMatch |-> NoHeader, ifNoneMatch |-> NoHeader]

Request(op, auth, id, body, im, inm) ==
  [op |-> op, auth |-> auth, objectId |-> id, body |-> body,
   ifMatch |-> im, ifNoneMatch |-> inm]

\* The requests with a token the identity provider accepts.  Every method
\* is tried on k1 with every body and header; k2 is created, read and deleted.
GoodRequests ==
  {Request("POST", "good", "", b, NoHeader, NoHeader) : b \in FullBodies}
  \cup {Request("GET", "good", "k1", Undefined, NoHeader, h) : h \in Headers}
  \cup {Request("PUT", "good", "k1", b, h, NoHeader) :
     b \in FullBodies, h \in Headers}
  \cup {Request("PATCH", "good", "k1", b, h, NoHeader) :
     b \in PatchBodies, h \in Headers}
  \cup {Request("DELETE", "good", "k1", Undefined, h, NoHeader) : h \in Headers}
  \cup {Request("GET", "good", "k2", Undefined, NoHeader, NoHeader),
        Request("DELETE", "good", "k2", Undefined, NoHeader, NoHeader)}

\* One request of each method without a Bearer header, and one with a token
\* the identity provider rejects.
BadRequests ==
  {[r EXCEPT !.auth = a] : a \in {"none", "bad"},
     r \in {g \in GoodRequests :
              /\ g.objectId \in {"", "k1"}
              /\ g.body \in {Undefined, Plan("k1", 1), Obj(<<>>)}
              /\ g.ifMatch = NoHeader /\ g.ifNoneMatch = NoHeader}}

Requests == GoodRequests \cup BadRequests

\* The requests that clients send while another request is in flight: the
\* writers of k1, a reader of it, and the creation and deletion of k2.
Overlapping ==
  {r \in GoodRequests :
     /\ r.body \in {Undefined, Plan("k1", 1), Plan("k1", 2), Plan("k2", 1),
                    Obj(<< <<"planCostShares", CostShares(3)>> >>)}
     /\ r.op \in {"PUT", "PATCH"} => r.ifMatch # NoHeader
     /\ r.op = "PUT" => r.body = Plan("k1", 2)
     /\ r.op \in {"GET", "DELETE"} => r.ifMatch = NoHeader /\ r.ifNoneMatch = NoHeader}

\* ------------------------------------------------------------------------
\* State
\* ------------------------------------------------------------------------
\* The request slots: each handles one request at a time, and the slots run
\* concurrently, interleaved at every await.
Procs == {"p1", "p2"}

NoProc == "nobody"

VARIABLES
  redis,    \* the store: a function from the keys present to their text
  pc,       \* per slot: idle, verifyToken, get, set, del or done
  req,      \* per slot: the request being handled (kept after the response)
  res,      \* per slot: the response sent
  local,    \* per slot: the handler's updatedPlan across the await of set
  last,     \* the slot that responded most recently
  pred,     \* per slot: the slot whose response this request directly
            \* followed with nothing else in flight, while that still holds
  calls     \* per slot: the store calls its request has issued, by kind

vars == <<redis, pc, req, res, local, last, pred, calls>>

\* await redisClient.get(key): the text, or null (written <<>>) when absent.
\* The handlers test the result for truthiness only, and the empty text is as
\* falsy as null.
Null == <<>>

redisGet(key) == IF key \in DOMAIN redis THEN redis[key] ELSE Null

\* The store after redisClient.set(key, text).
redisSet(key, text) ==
  [k \in DOMAIN redis \cup {key} |-> IF k = key THEN text ELSE redis[k]]

\* The store after redisClient.del(key), and the count del returns.
redisDel(key) == [k \in DOMAIN redis \ {key} |-> redis[k]]

delCount(key) == IF key \in DOMAIN redis THEN 1 ELSE 0

\* No store call issued yet.
NoCalls == [get |-> 0, set |-> 0, del |-> 0]

NoResponse == [status |-> 0, etag |-> NoHeader, data |-> Undefined]

Response(status, etag, data) == [status |-> status, etag |-> etag, data |-> data]

Init ==
  /\ redis = <<>>
  /\ pc = [p \in Procs |-> "idle"]
  /\ req = [p \in Procs |-> NoRequest]
  /\ res = [p \in Procs |-> NoResponse]
  /\ local = [p \in Procs |-> Undefined]
  /\ last = NoProc
  /\ pred = [p \in Procs |-> NoProc]
  /\ calls = [p \in Procs |-> NoCalls]

\* Slot p sends its response.
Respond(p, response) ==
  /\ res' = [res EXCEPT ![p] = response]
  /\ pc' = [pc EXCEPT ![p] = "done"]
  /\ local' = [local EXCEPT ![p] = Undefined]
  /\ last' = p
  /\ calls' = calls

\* Slot p issues a store call and awaits it.
Await(p, call) ==
  /\ pc' = [pc EXCEPT ![p] = call]
  /\ calls' = [calls EXCEPT ![p][call] = @ + 1]
  /\ UNCHANGED <<res, last>>

\* ------------------------------------------------------------------------
\* verifyToken
\* ------------------------------------------------------------------------
\* A request arrives on a slot that handles none.  verifyToken answers 401
\* when the Authorization header is missing or not a Bearer one, and otherwise
\* awaits the identity provider.
Quiet(p) == \A o \in Procs \ {p} : pc[o] \in {"idle", "done"}

\* Slots are interchangeable: when nothing is in flight the request takes
\* the slot that does not hold the latest response, so that the two latest
\* responses stay visible.  Requests overlap within Overlapping only.
Admissible(p, r) ==
  IF Quiet(p)
  THEN p = CHOOSE o \in Procs : o # last
  ELSE /\ r \in Overlapping
       /\ \A o \in Procs \ {p} : pc[o] \in {"idle", "done"} \/ req[o] \in Overlapping

ArriveFrom(p, clients) ==
  /\ pc[p] \in {"idle", "done"}
  /\ \E r \in clients :
       /\ Admissible(p, r)
       /\ req' = [req EXCEPT ![p] = r]
       /\ IF r.auth = "none"
          THEN /\ res' = [res EXCEPT ![p] = Response(401, NoHeader, Undefined)]
               /\ pc' = [pc EXCEPT ![p] = "done"]
               /\ last' = p
          ELSE /\ res' = [res EXCEPT ![p] = NoResponse]
               /\ pc' = [pc EXCEPT ![p] = "verifyToken"]
               /\ last' = last
  /\ pred' = [q \in Procs |-> IF q = p /\ Quiet(p) THEN last ELSE NoProc]
  /\ calls' = [calls EXCEPT ![p] = NoCalls]
  /\ UNCHANGED <<redis, local>>

Arrive(p) == ArriveFrom(p, Requests)

\* Faulty variant: only the body of a POST is validated before the store is
\* read.
BeforeGet_PostOnly(r) ==
  IF r.op = "POST" /\ ~validatePlan(r.body)
  THEN "invalid" ELSE "get"

\* Faulty variant: no body is validated before the store is read.
BeforeGet_NoValidation(r) == "get"

\* What the handler does before its first await, once verifyToken has called
\* next(): POST and PUT validate the body, and every handler then reads the
\* store.
BeforeGet(r) ==
  IF r.op \in {"POST", "PUT"} /\ ~validatePlan(r.body)
  THEN "invalid" ELSE "get"

\* Faulty variant: next() called whether or not verifyIdToken threw.
VerifyToken_NoGate(p) ==
  /\ pc[p] = "verifyToken"
  /\ IF BeforeGet(req[p]) = "invalid"
     THEN Respond(p, Response(400, NoHeader, Undefined))
     ELSE Await(p, "get") /\ UNCHANGED local
  /\ UNCHANGED <<redis, req, pred>>

\* verifyIdToken returns: 403 when it threw, else the handler starts.
VerifyToken(p) ==
  /\ pc[p] = "verifyToken"
  /\ IF req[p].auth = "bad"
     THEN Respond(p, Response(403, NoHeader, Undefined))
     ELSE IF BeforeGet(req[p]) = "invalid"
          THEN Respond(p, Response(400, NoHeader, Undefined))
          ELSE Await(p, "get") /\ UNCHANGED local
  /\ UNCHANGED <<redis, req, pred>>

\* ------------------------------------------------------------------------
\* POST /plans
\* ------------------------------------------------------------------------
\* Faulty variant: the key taken from the nested planCostShares object, as earlier
\* revisions of the handler did.
PostObjectId_CostShares(data) ==
  Prop(Prop(data, "planCostShares"), "objectId").v[1]

\* The key a POST stores its body under.
PostObjectId(data) == Prop(data, "objectId").v[1]

\* Faulty variant: the existing record is not looked at.
PostDecision_Overwrite(existingPlan) == "proceed"

PostDecision(existingPlan) ==
  IF existingPlan # Null THEN "conflict" ELSE "proceed"

\* redisClient.get returns to the POST handler.
PostGet(p) ==
  /\ pc[p] = "get" /\ req[p].op = "POST"
  /\ LET existingPlan == redisGet(PostObjectId(req[p].body))
     IN  IF PostDecision(existingPlan) = "conflict"
         THEN Respond(p, Response(409, Header(generateETag(existingPlan)),
                                  JSONparse(existingPlan)))
         ELSE Await(p, "set") /\ UNCHANGED local
  /\ UNCHANGED <<redis, req, pred>>

\* redisClient.set returns to the POST handler.
PostSet(p) ==
  /\ pc[p] = "set" /\ req[p].op = "POST"
  /\ LET data == req[p].body
     IN  /\ redis' = redisSet(PostObjectId(data), JSONstringify(data))
         /\ Respond(p, Response(201, Header(generateETag(JSONstringify(data))),
                                data))
  /\ UNCHANGED <<req, pred>>

\* ------------------------------------------------------------------------
\* PUT /plans/:objectId
\* ------------------------------------------------------------------------
\* Faulty variant: the tag comparison made before the record is looked for.
PutDecision_TagFirst(existingPlan, ifMatch) ==
  IF ifMatch # Header(generateETag(existingPlan))
  THEN "precondition_failed"
  ELSE IF existingPlan = Null THEN "not_found" ELSE "proceed"

\* Faulty variant: the handler with the If-Match comparison left out.
PutDecision_NoIfMatch(existingPlan, ifMatch) ==
  IF existingPlan = Null THEN "not_found" ELSE "proceed"

PutDecision(existingPlan, ifMatch) ==
  IF existingPlan = Null THEN "not_found"
  ELSE IF ifMatch # Header(generateETag(existingPlan))
       THEN "precondition_failed"
       ELSE "proceed"

\* Faulty variant: the handler holds back while another request is about to
\* write, as it would behind a lock.
PutGet_Waits(p) ==
  /\ pc[p] = "get" /\ req[p].op = "PUT"
  /\ \A o \in Procs \ {p} : pc[o] # "set"
  /\ LET decision == PutDecision(redisGet(req[p].objectId), req[p].ifMatch)
     IN  CASE decision = "not_found" ->
                Respond(p, Response(404, NoHeader, Undefined))
           [] decision = "precondition_failed" ->
                Respond(p, Response(412, NoHeader, Undefined))
           [] OTHER -> Await(p, "set") /\ UNCHANGED local
  /\ UNCHANGED <<redis, req, pred>>

PutGet(p) ==
  /\ pc[p] = "get" /\ req[p].op = "PUT"
  /\ LET decision == PutDecision(redisGet(req[p].objectId), req[p].ifMatch)
     IN  CASE decision = "not_found" ->
                Respond(p, Response(404, NoHeader, Undefined))
           [] decision = "precondition_failed" ->
                Respond(p, Response(412, NoHeader, Undefined))
           [] OTHER -> Await(p, "set") /\ UNCHANGED local
  /\ UNCHANGED <<redis, req, pred>>

\* Faulty variant: the tag of the text read instead of the text written.
PutETag_OfExisting(existingPlan, newData) == generateETag(existingPlan)

\* The tag a PUT answers with.
PutETag(existingPlan, newData) == generateETag(JSONstringify(newData))

\* Faulty variant: the tag compared again when the write is made.
PutSet_Rechecks(p) ==
  /\ pc[p] = "set" /\ req[p].op = "PUT"
  /\ IF req[p].ifMatch # Header(generateETag(redisGet(req[p].objectId)))
     THEN /\ redis' = redis
          /\ Respond(p, Response(412, NoHeader, Undefined))
     ELSE /\ redis' = redisSet(req[p].objectId, JSONstringify(req[p].body))
          /\ Respond(p, Response(200,
                                 Header(generateETag(JSONstringify(req[p].body))),
                                 req[p].body))
  /\ UNCHANGED <<req, pred>>

PutSet(p) ==
  /\ pc[p] = "set" /\ req[p].op = "PUT"
  /\ LET newData == req[p].body
     IN  /\ redis' = redisSet(req[p].objectId, JSONstringify(newData))
         /\ Respond(p, Response(200,
                                Header(PutETag(redisGet(req[p].objectId), newData)),
                                newData))
  /\ UNCHANGED <<req, pred>>

\* ------------------------------------------------------------------------
\* PATCH /plans/:objectId
\* ------------------------------------------------------------------------
PatchMerge(plan, updates) == Spread(JSONparse(plan), updates)

\* Faulty variant: the merged document validated before the tags are compared.
PatchDecision_ValidateFirst(plan, ifMatch, updates) ==
  IF plan = Null THEN "not_found"
  ELSE IF ~validatePlan(PatchMerge(plan, updates))
       THEN "invalid"
       ELSE IF ifMatch # Header(generateETag(plan))
            THEN "precondition_failed"
            ELSE "proceed"

\* Faulty variant: If-Match compared only when the header is there, as is usual for
\* an optional precondition.
PatchDecision_OptionalIfMatch(plan, ifMatch, updates) ==
  IF plan = Null THEN "not_found"
  ELSE IF ifMatch # NoHeader /\ ifMatch # Header(generateETag(plan))
       THEN "precondition_failed"
       ELSE IF ~validatePlan(PatchMerge(plan, updates))
            THEN "invalid"
            ELSE "proceed"

\* Faulty variant: the handler with the If-Match comparison left out.
PatchDecision_NoIfMatch(plan, ifMatch, updates) ==
  IF plan = Null THEN "not_found"
  ELSE IF ~validatePlan(PatchMerge(plan, updates))
       THEN "invalid"
       ELSE "proceed"

\* Faulty variant: the merged document is stored without being validated.
PatchDecision_NoValidation(plan, ifMatch, updates) ==
  IF plan = Null THEN "not_found"
  ELSE IF ifMatch # Header(generateETag(plan))
       THEN "precondition_failed"
       ELSE "proceed"

PatchDecision(plan, ifMatch, updates) ==
  IF plan = Null THEN "not_found"
  ELSE IF ifMatch # Header(generateETag(plan))
       THEN "precondition_failed"
       ELSE IF \E updatedPlan \in {PatchMerge(plan, updates)} :
                 ~validatePlan(updatedPlan)
            THEN "invalid"
            ELSE "proceed"

PatchGet(p) ==
  /\ pc[p] = "get" /\ req[p].op = "PATCH"
  /\ LET plan == redisGet(req[p].objectId)
         decision == PatchDecision(plan, req[p].ifMatch, req[p].body)
     IN  CASE decision = "not_found" ->
                Respond(p, Response(404, NoHeader, Undefined))
           [] decision = "precondition_failed" ->
                Respond(p, Response(412, NoHeader, Undefined))
           [] decision = "invalid" ->
                Respond(p, Response(400, NoHeader, Undefined))
           [] OTHER ->
                /\ Await(p, "set")
                /\ local' = [local EXCEPT ![p] = PatchMerge(plan, req[p].body)]
  /\ UNCHANGED <<redis, req, pred>>

\* Faulty variant: the 200 carries the tag of the request body instead of the
\* tag of the merged text stored.
PatchSet_TagOfUpdates(p) ==
  /\ pc[p] = "set" /\ req[p].op = "PATCH"
  /\ LET updatedPlan == local[p]
     IN  /\ redis' = redisSet(req[p].objectId, JSONstringify(updatedPlan))
         /\ Respond(p, Response(200,
                                Header(generateETag(JSONstringify(req[p].body))),
                                updatedPlan))
  /\ UNCHANGED <<req, pred>>

\* Faulty variant: the merged document stored under its own objectId instead
\* of the key of the path.
PatchSet_KeyOfDocument(p) ==
  /\ pc[p] = "set" /\ req[p].op = "PATCH"
  /\ LET updatedPlan == local[p]
     IN  /\ redis' = redisSet(Prop(updatedPlan, "objectId").v[1],
                              JSONstringify(updatedPlan))
         /\ Respond(p, Response(200,
                                Header(generateETag(JSONstringify(updatedPlan))),
                                updatedPlan))
  /\ UNCHANGED <<req, pred>>

PatchSet(p) ==
  /\ pc[p] = "set" /\ req[p].op = "PATCH"
  /\ LET updatedPlan == local[p]
     IN  /\ redis' = redisSet(req[p].objectId, JSONstringify(updatedPlan))
         /\ Respond(p, Response(200,
                                Header(generateETag(JSONstringify(updatedPlan))),
                                updatedPlan))
  /\ UNCHANGED <<req, pred>>

\* ------------------------------------------------------------------------
\* GET /plans/:objectId
\* ------------------------------------------------------------------------
\* Faulty variant: If-None-Match is not looked at.
GetDecision_Unconditional(plan, ifNoneMatch) ==
  IF plan = Null THEN "not_found" ELSE "ok"

GetDecision(plan, ifNoneMatch) ==
  IF plan = Null THEN "not_found"
  ELSE IF ifNoneMatch = Header(generateETag(plan))
       THEN "not_modified"
       ELSE "ok"

\* Faulty variant: the tag computed from the key instead of the text read.
GetGet_TagOfKey(p) ==
  /\ pc[p] = "get" /\ req[p].op = "GET"
  /\ LET plan == redisGet(req[p].objectId)
         tag == Header(generateETag(<<req[p].objectId>>))
     IN  IF plan = Null
         THEN Respond(p, Response(404, NoHeader, Undefined))
         ELSE IF req[p].ifNoneMatch = tag
              THEN Respond(p, Response(304, tag, Undefined))
              ELSE Respond(p, Response(200, tag, JSONparse(plan)))
  /\ UNCHANGED <<redis, req, pred>>

\* The ETag header is set before If-None-Match is looked at, so that the 304
\* carries it too.
GetGet(p) ==
  /\ pc[p] = "get" /\ req[p].op = "GET"
  /\ LET plan == redisGet(req[p].objectId)
         decision == GetDecision(plan, req[p].ifNoneMatch)
     IN  CASE decision = "not_found" ->
                Respond(p, Response(404, NoHeader, Undefined))
           [] decision = "not_modified" ->
                Respond(p, Response(304, Header(generateETag(plan)), Undefined))
           [] OTHER ->
                Respond(p, Response(200, Header(generateETag(plan)),
                                    JSONparse(plan)))
  /\ UNCHANGED <<redis, req, pred>>

\* ------------------------------------------------------------------------
\* DELETE /plans/:objectId
\* ------------------------------------------------------------------------
\* Faulty variant: the removal issued whatever the read returned.
DeleteDecision_NoLookup(plan, ifMatch) == "proceed"

\* "DELETE Plan without ETag validation": If-Match is not looked at.
DeleteDecision(plan, ifMatch) ==
  IF plan = Null THEN "not_found" ELSE "proceed"

DeleteGet(p) ==
  /\ pc[p] = "get" /\ req[p].op = "DELETE"
  /\ IF DeleteDecision(redisGet(req[p].objectId), req[p].ifMatch) = "not_found"
     THEN Respond(p, Response(404, NoHeader, Undefined))
     ELSE Await(p, "del") /\ UNCHANGED local
  /\ UNCHANGED <<redis, req, pred>>

\* Faulty variant: the count del returns is not looked at.
DeleteStatus_Ignored(deleted) == 204

\* Faulty variant: 404 answered whatever del removed.
DeleteStatus_NotFound(deleted) == 404

\* The status after redisClient.del returned the count deleted.
DeleteStatus(deleted) == IF deleted = 0 THEN 404 ELSE 204

DeleteDel(p) ==
  /\ pc[p] = "del" /\ req[p].op = "DELETE"
  /\ redis' = redisDel(req[p].objectId)
  /\ Respond(p, Response(DeleteStatus(delCount(req[p].objectId)),
                         NoHeader, Undefined))
  /\ UNCHANGED <<req, pred>>

\* ------------------------------------------------------------------------
\* Store failure
\* ------------------------------------------------------------------------
\* Faulty variant: a call that throws is issued once more before the catch
\* gives up.
StoreError_Retries(p) ==
  /\ pc[p] \in {"get", "set", "del"}
  /\ IF calls[p][pc[p]] < 2
     THEN /\ calls' = [calls EXCEPT ![p][pc[p]] = @ + 1]
          /\ UNCHANGED <<pc, res, local, last>>
     ELSE Respond(p, Response(500, NoHeader, Undefined))
  /\ UNCHANGED <<redis, req, pred>>

\* An awaited store call throws: the handler's catch answers 500, and the
\* call has changed nothing.
StoreError(p) ==
  /\ pc[p] \in {"get", "set", "del"}
  /\ Respond(p, Response(500, NoHeader, Undefined))
  /\ UNCHANGED <<redis, req, pred>>

Next ==
  \E p \in Procs :
    \/ Arrive(p)
    \/ VerifyToken(p)
    \/ PostGet(p)
    \/ PostSet(p)
    \/ PutGet(p)
    \/ PutSet(p)
    \/ PatchGet(p)
    \/ PatchSet(p)
    \/ GetGet(p)
    \/ DeleteGet(p)
    \/ DeleteDel(p)
    \/ StoreError(p)

Spec == Init /\ [][Next]_vars

\* The awaited call of slot p settles (it returns or it throws) and the
\* continuation of the handler runs.
Settles(p) ==
  \/ VerifyToken(p)
  \/ PostGet(p)
  \/ PostSet(p)
  \/ PutGet(p)
  \/ PutSet(p)
  \/ PatchGet(p)
  \/ PatchSet(p)
  \/ GetGet(p)
  \/ DeleteGet(p)
  \/ DeleteDel(p)
  \/ StoreError(p)

\* The overlapping requests that contend for k1: its creation, read,
\* replacement, update and removal.
Contending ==
  {r \in Overlapping : r.objectId = "k1" \/ r.body = Plan("k1", 1)}

\* The server under clients that send the contending requests only.
NextContending == \E p \in Procs : ArriveFrom(p, Contending) \/ Settles(p)

\* The identity provider and the store answer every call, and the event
\* loop runs every continuation that is ready.
FairSpec ==
  /\ Init /\ [][NextContending]_vars
  /\ \A p \in Procs : WF_vars(Settles(p))

\* ------------------------------------------------------------------------
\* Vocabulary of the properties
\* ------------------------------------------------------------------------
\* Slot p sends the response of its handler in this step.
Answers(p) == pc[p] \in {"verifyToken", "get", "set", "del"} /\ pc'[p] = "done"

\* Slot p's handler resumes from the await of a store call, and the call did
\* not throw.
Resumes(p, call) ==
  /\ pc[p] = call /\ pc'[p] # call
  /\ ~(pc'[p] = "done" /\ res'[p].status = 500)

Stored(key) == key \in DOMAIN redis

\* The key of a document: its top-level objectId.
KeyOf(data) == Prop(data, "objectId").v[1]

\* The ETag header that goes with the text stored under key.
StoredTag(key) == Header(generateETag(redis[key]))

Authenticated(p, op) == req[p].op = op /\ req[p].auth = "good"

\* Slot p has answered a request that arrived after slot q's response, with
\* no other request between the two responses.
Follows(p, q) == pc[p] = "done" /\ pred[p] = q /\ pc[q] = "done"

\* p's request replays q's PUT, which returned 200, and got its store read.
ReplaysPut(p, q) ==
  /\ Follows(p, q)
  /\ Authenticated(q, "PUT") /\ res[q].status = 200
  /\ req[p] = req[q]
  /\ res[p].status # 500

\* ------------------------------------------------------------------------
\* C1
\* ------------------------------------------------------------------------
\* C1 as claimed: after a PUT with If-Match: T returned 200, the same PUT
\* replayed with If-Match: T, with no request in between, returns 412 and
\* leaves the document the first PUT stored.
C1_ReplayAlways412 ==
  \A p, q \in Procs :
    ReplaysPut(p, q) =>
      /\ res[p].status = 412
      /\ redisGet(req[q].objectId) = JSONstringify(req[q].body)

\* C1: the replay returns 412 and leaves the stored document when the body
\* the PUT stored reads differently from the text that carried T; when the
\* PUT stored the very text it replaced, the tag is still T and the replay
\* returns 200 again, rewriting that text.
C1_StaleTagRejected ==
  \A p, q \in Procs :
    ReplaysPut(p, q) =>
      /\ res[p].status =
           IF Header(generateETag(JSONstringify(req[q].body))) # req[q].ifMatch
           THEN 412 ELSE 200
      /\ redisGet(req[q].objectId) = JSONstringify(req[q].body)

C1_Witness ==
  \E p, q \in Procs : ReplaysPut(p, q) /\ res[p].status = 412

\* ------------------------------------------------------------------------
\* C2
\* ------------------------------------------------------------------------
\* C2 as claimed: a PUT that returns 200 for a key whose tag was T returns
\* an ETag other than T.
C2_NewTagDiffers ==
  \A p \in Procs :
    pc[p] = "done" /\ Authenticated(p, "PUT") /\ res[p].status = 200
      => res[p].etag # req[p].ifMatch

\* C2: a PUT goes on to write only when its If-Match T is the tag of the
\* text it read, the ETag T2 of its 200 is the tag of the text it wrote, and
\* T2 differs from T exactly when the text written differs from the text
\* read.
C2_NewTagIsTagOfBody ==
  [][\A p \in Procs :
       Authenticated(p, "PUT") =>
         /\ Resumes(p, "get") /\ pc'[p] = "set" =>
              /\ req[p].ifMatch = StoredTag(req[p].objectId)
              /\ (Header(generateETag(JSONstringify(req[p].body))) # req[p].ifMatch
                    <=> JSONstringify(req[p].body) # redis[req[p].objectId])
         /\ Resumes(p, "set") =>
              /\ res'[p].status = 200
              /\ res'[p].etag = Header(generateETag(redis'[req[p].objectId]))
              /\ redis'[req[p].objectId] = JSONstringify(req[p].body)]_vars

C2_Witness ==
  \E p \in Procs :
    /\ pc[p] = "done" /\ Authenticated(p, "PUT") /\ res[p].status = 200
    /\ res[p].etag # req[p].ifMatch

\* ------------------------------------------------------------------------
\* C3
\* ------------------------------------------------------------------------
\* What C3 and its amendment ask of a step of PUT handler p whose store call
\* returned: 404 when it read no record, 412 when the If-Match value is not
\* the tag of the text read, else on to the write, which stores the body
\* and answers 200 with the tag of the text stored.
PutDecides(p) ==
  LET key == req[p].objectId
  IN  /\ ~Stored(key) => Answers(p) /\ res'[p].status = 404
      /\ Stored(key) /\ req[p].ifMatch # StoredTag(key)
           => Answers(p) /\ res'[p].status = 412
      /\ Stored(key) /\ req[p].ifMatch = StoredTag(key)
           => pc'[p] = "set" /\ redis' = redis

PutWrites(p) ==
  LET key == req[p].objectId
  IN  /\ redis' = redisSet(key, JSONstringify(req[p].body))
      /\ res'[p].status = 200
      /\ res'[p].etag = Header(generateETag(redis'[key]))

\* C3 as claimed: every authenticated PUT is decided by the record alone,
\* the one with a body the schema rejects included.
C3_PutDecidedByRecordOnly ==
  [][\A p \in Procs :
       Authenticated(p, "PUT") =>
         /\ Resumes(p, "verifyToken") => pc'[p] = "get"
         /\ Resumes(p, "get") => PutDecides(p)
         /\ Resumes(p, "set") => PutWrites(p)]_vars

\* C3: every authenticated PUT whose body passes the schema is answered 404
\* when it read no record, else 412 when If-Match is not the tag of the text
\* read, else it overwrites the record with its body and answers 200 with
\* the tag of the new text.  (A body the schema rejects is answered 400
\* before the store is read.)
C3_ReplaceDecision ==
  [][\A p \in Procs :
       Authenticated(p, "PUT") /\ validatePlan(req[p].body) =>
         /\ Resumes(p, "verifyToken") => pc'[p] = "get"
         /\ Resumes(p, "get") => PutDecides(p)
         /\ Resumes(p, "set") => PutWrites(p)]_vars

\* All three outcomes have been seen: a 404, a 412 and a 200 of valid PUTs.
C3_Witness ==
  \E p, q \in Procs :
    /\ pc[p] = "done" /\ Authenticated(p, "PUT") /\ res[p].status = 200
    /\ redisGet(req[p].objectId) = JSONstringify(req[p].body)
    /\ pc[q] = "done" /\ Authenticated(q, "PUT") /\ res[q].status = 412
    /\ validatePlan(req[q].body)

\* ------------------------------------------------------------------------
\* C4
\* ------------------------------------------------------------------------
\* C4: an authenticated PATCH is answered 404 when it read no record; else
\* 412 when If-Match is not the tag of the text read, whether or not the
\* merged document is valid; else 400 when the merged document fails the
\* schema; else the merged document is stored and the answer is 200 with
\* the tag of the merged text.
C4_PatchDecisionOrder ==
  [][\A p \in Procs :
       Authenticated(p, "PATCH") =>
         LET key == req[p].objectId
             merged == Spread(JSONparse(redis[key]), req[p].body)
         IN  /\ Resumes(p, "verifyToken") => pc'[p] = "get"
             /\ Resumes(p, "get") =>
                  /\ ~Stored(key) => Answers(p) /\ res'[p].status = 404
                  /\ Stored(key) /\ req[p].ifMatch # StoredTag(key)
                       => Answers(p) /\ res'[p].status = 412
                  /\ Stored(key) /\ req[p].ifMatch = StoredTag(key)
                       => IF validatePlan(merged)
                          THEN /\ pc'[p] = "set" /\ local'[p] = merged
                               /\ redis' = redis
                          ELSE Answers(p) /\ res'[p].status = 400
             /\ Resumes(p, "set") =>
                  /\ redis' = redisSet(key, JSONstringify(local[p]))
                  /\ res'[p].status = 200
                  /\ res'[p].data = local[p]
                  /\ res'[p].etag = Header(generateETag(redis'[key]))]_vars

\* A PATCH was answered 412 although its merged document is invalid, while
\* another was answered 400.
C4_Witness ==
  \E p, q \in Procs :
    /\ pc[p] = "done" /\ Authenticated(p, "PATCH") /\ res[p].status = 412
    /\ Stored(req[p].objectId)
    /\ ~validatePlan(Spread(JSONparse(redis[req[p].objectId]), req[p].body))
    /\ pc[q] = "done" /\ Authenticated(q, "PATCH") /\ res[q].status = 400

\* ------------------------------------------------------------------------
\* C5
\* ------------------------------------------------------------------------
\* C5: a PUT or PATCH without an If-Match header never reaches its write,
\* and no step of its handler changes the store.
C5_IfMatchRequired ==
  [][\A p \in Procs :
       /\ req[p].op \in {"PUT", "PATCH"} /\ req[p].ifMatch = NoHeader
       /\ pc[p] \in {"verifyToken", "get", "set"} /\ pc'[p] # pc[p]
       => pc'[p] # "set" /\ redis' = redis]_vars

\* Such a request was refused with 412 on a key that has a record.
C5_Witness ==
  \E p \in Procs :
    /\ pc[p] = "done" /\ req[p].op \in {"PUT", "PATCH"}
    /\ req[p].auth = "good" /\ req[p].ifMatch = NoHeader
    /\ res[p].status = 412 /\ Stored(req[p].objectId)

\* ------------------------------------------------------------------------
\* C6
\* ------------------------------------------------------------------------
\* C6: an authenticated, schema-valid POST that reads a record under the key
\* of its body is answered 409 with the stored document and the ETag a GET
\* of the key computes (the tag of the stored text), and writes nothing.
C6_DuplicateCreateRejected ==
  [][\A p \in Procs :
       /\ Authenticated(p, "POST") /\ Resumes(p, "get")
       /\ Stored(KeyOf(req[p].body))
       => LET key == KeyOf(req[p].body)
          IN  /\ Answers(p)
              /\ res'[p].status = 409
              /\ res'[p].data = JSONparse(redis[key])
              /\ res'[p].etag = Header(generateETag(redisGet(key)))
              /\ redis' = redis]_vars

\* A POST was answered 409 with a document other than its own body.
C6_Witness ==
  \E p \in Procs :
    /\ pc[p] = "done" /\ Authenticated(p, "POST") /\ res[p].status = 409
    /\ res[p].data # req[p].body
    /\ res[p].etag = StoredTag(KeyOf(req[p].body))

\* ------------------------------------------------------------------------
\* C7
\* ------------------------------------------------------------------------
\* p's request is a GET of the key q's POST created with 201, sent after
\* that response with nothing in between, and it got its store read.
ReadsCreated(p, q) ==
  /\ Follows(p, q)
  /\ Authenticated(q, "POST") /\ res[q].status = 201
  /\ Authenticated(p, "GET")
  /\ req[p].objectId = KeyOf(req[q].body)
  /\ res[p].status # 500

\* C7: after a POST of document D returned 201 with tag T, a GET of its key
\* with no request in between returns 200 with body D and ETag T.  (A GET
\* that presents T itself in If-None-Match is the conditional read of C8:
\* it carries ETag T too, and no body.)
C7_CreateThenRead ==
  \A p, q \in Procs :
    ReadsCreated(p, q) =>
      /\ res[p].etag = res[q].etag
      /\ req[p].ifNoneMatch # res[q].etag =>
           res[p].status = 200 /\ res[p].data = req[q].body

C7_Witness ==
  \E p, q \in Procs :
    ReadsCreated(p, q) /\ res[p].status = 200 /\ res[p].data = req[q].body

\* ------------------------------------------------------------------------
\* C8
\* ------------------------------------------------------------------------
\* C8: a GET that reads a record is answered 304 without a body when its
\* If-None-Match is the tag of the stored text, and otherwise (another
\* value, or none) 200 with the stored document and that tag; a GET that
\* reads no record is answered 404.
C8_ConditionalRead ==
  [][\A p \in Procs :
       Authenticated(p, "GET") =>
         LET key == req[p].objectId
         IN  /\ Resumes(p, "verifyToken") => pc'[p] = "get"
             /\ Resumes(p, "get") =>
                  /\ Answers(p) /\ redis' = redis
                  /\ ~Stored(key) => res'[p].status = 404
                  /\ Stored(key) /\ req[p].ifNoneMatch = StoredTag(key)
                       => res'[p].status = 304 /\ res'[p].data = Undefined
                  /\ Stored(key) /\ req[p].ifNoneMatch # StoredTag(key)
                       => /\ res'[p].status = 200
                          /\ res'[p].data = JSONparse(redis[key])
                          /\ res'[p].etag = StoredTag(key)]_vars

\* A GET that presented the tag of the stored text was answered 304, with
\* no body.
C8_Witness ==
  \E p \in Procs :
    /\ pc[p] = "done" /\ Authenticated(p, "GET") /\ res[p].status = 304
    /\ Stored(req[p].objectId) /\ req[p].ifNoneMatch = StoredTag(req[p].objectId)
    /\ res[p].data = Undefined

\* ------------------------------------------------------------------------
\* C9
\* ------------------------------------------------------------------------
\* C9: a DELETE that reads a record and carries an If-Match other than the
\* tag of the stored text is answered 412 and removes nothing; one without
\* If-Match, or with the matching one, removes the record and is answered
\* 204.
C9_ConditionalDelete ==
  [][\A p \in Procs :
       Authenticated(p, "DELETE") =>
         LET key == req[p].objectId
         IN  /\ Resumes(p, "get") /\ Stored(key) =>
                  IF req[p].ifMatch \notin {NoHeader, StoredTag(key)}
                  THEN Answers(p) /\ res'[p].status = 412 /\ redis' = redis
                  ELSE pc'[p] = "del"
             /\ Resumes(p, "del") /\ Stored(key) =>
                  res'[p].status = 204 /\ redis' = redisDel(key)]_vars

\* ------------------------------------------------------------------------
\* C10
\* ------------------------------------------------------------------------
\* C10: under every interleaving, the step in which a DELETE is answered 204
\* is one that removes a record that was there; a DELETE that finds no
\* record, at its read or later at its del, is answered 404.  A record is
\* therefore removed with 204 by one DELETE at most.
C10_DeleteOfAbsence ==
  [][\A p \in Procs :
       Authenticated(p, "DELETE") /\ Answers(p) =>
         LET key == req[p].objectId
         IN  /\ res'[p].status = 204 =>
                  Stored(key) /\ key \notin DOMAIN redis'
             /\ ~Stored(key) /\ res'[p].status # 500 =>
                  res'[p].status = 404 /\ redis' = redis]_vars

\* Two DELETEs of one key both read the record; one has removed it and was
\* answered 204, the other is about to get 0 from del.
C10_Witness ==
  \E p, q \in Procs :
    /\ p # q /\ req[p].objectId = req[q].objectId
    /\ Authenticated(p, "DELETE") /\ pc[p] = "done" /\ res[p].status = 204
    /\ Authenticated(q, "DELETE") /\ pc[q] = "del"
    /\ ~Stored(req[q].objectId)

\* ------------------------------------------------------------------------
\* C11
\* ------------------------------------------------------------------------
\* q's PATCH carried the current tag and was answered 400; p's GET of the
\* same key came next and got its store read.
ReadsAfterRejectedPatch(p, q) ==
  /\ Follows(p, q)
  /\ Authenticated(q, "PATCH") /\ res[q].status = 400
  /\ Authenticated(p, "GET") /\ req[p].objectId = req[q].objectId
  /\ res[p].status # 500

\* C11: an authenticated PATCH whose If-Match is the tag of the text read
\* and whose merged document fails the schema is answered 400 in the step
\* that read the store, never awaits a write, and leaves the store as it
\* was; a GET of the key that comes next finds the record, answers with the
\* tag the PATCH carried and, unless that tag is its own If-None-Match (304
\* with no body), with status 200 and the document stored under that tag.
C11_RejectedPatchWritesNothing ==
  /\ [][\A p \in Procs :
          /\ Authenticated(p, "PATCH") /\ Resumes(p, "get")
          /\ Stored(req[p].objectId)
          /\ req[p].ifMatch = StoredTag(req[p].objectId)
          /\ ~validatePlan(Spread(JSONparse(redis[req[p].objectId]), req[p].body))
          => /\ Answers(p) /\ res'[p].status = 400
             /\ redis' = redis]_vars
  /\ [](\A p, q \in Procs :
          ReadsAfterRejectedPatch(p, q) =>
            LET key == req[p].objectId
            IN  /\ Stored(key)
                /\ StoredTag(key) = req[q].ifMatch
                /\ res[p].etag = req[q].ifMatch
                /\ IF req[p].ifNoneMatch = req[q].ifMatch
                   THEN res[p].status = 304 /\ res[p].data = Undefined
                   ELSE res[p].status = 200
                        /\ res[p].data = JSONparse(redis[key]))

\* A PATCH with the current tag was answered 400 and the GET that came next
\* returned the document the tag belongs to.
C11_Witness ==
  \E p, q \in Procs :
    /\ ReadsAfterRejectedPatch(p, q)
    /\ req[q].ifMatch # NoHeader
    /\ res[p].status = 200
    /\ res[p].etag = req[q].ifMatch
    /\ res[p].data = Plan("k1", 1)

\* ------------------------------------------------------------------------
\* C12
\* ------------------------------------------------------------------------
\* The statuses other than those of a write that succeeded.
UnchangingStatuses == {304, 400, 401, 403, 404, 409, 412, 500}

\* Slot p takes a step of its request: the request arrives, or its handler
\* resumes from an await.
StepsOf(p) ==
  \/ /\ pc[p] \in {"idle", "done"}
     /\ \/ pc'[p] = "verifyToken"
        \/ /\ pc'[p] = "done" /\ res'[p].status = 401 /\ last' = p
           /\ \A o \in Procs \ {p} : pc'[o] = pc[o]
  \/ pc[p] \in {"verifyToken", "get", "set", "del"} /\ pc'[p] # pc[p]

\* C12: no step of a GET changes the store, no step in which a request is
\* answered 304, 400, 401, 403, 404, 409, 412 or 500 changes it, and no step
\* that sends no answer changes it either; so that the store differs after
\* a request's own steps only when the request was answered 200, 201 or
\* 204 by a POST, PUT, PATCH or DELETE.  (A store call that throws is taken
\* to have had no effect on the store.)
C12_StoreChangesOnlyOnSuccess ==
  [][\A p \in Procs :
       /\ StepsOf(p)
       /\ \/ req'[p].op = "GET"
          \/ pc'[p] # "done"
          \/ res'[p].status \in UnchangingStatuses
       => redis' = redis]_vars

\* With a record stored, one request was answered 409 and the next 500.
C12_Witness ==
  \E p, q \in Procs :
    /\ Follows(p, q)
    /\ res[q].status = 409
    /\ res[p].status = 500 /\ req[p].op \in {"PUT", "PATCH", "DELETE"}
    /\ Stored(req[p].objectId)

\* ------------------------------------------------------------------------
\* C13
\* ------------------------------------------------------------------------
\* The text of a document as the handlers store it.
TextOf(data) == JSONstringify(data)

\* C13: the If-Match comparison is made once, on the text read.  A PUT or
\* PATCH whose write returns after another request has changed the record,
\* so that the stored tag is no longer its If-Match, still stores its own
\* document over it and answers 200.  Two such requests carrying the same
\* tag can therefore both be answered 200 (C13_Witness).
C13_LostUpdate ==
  [][\A p \in Procs :
       /\ req[p].op \in {"PUT", "PATCH"} /\ Resumes(p, "set")
       /\ Stored(req[p].objectId)
       /\ StoredTag(req[p].objectId) # req[p].ifMatch
       => /\ Answers(p) /\ res'[p].status = 200
          /\ redis'[req[p].objectId] = TextOf(res'[p].data)
          /\ redis'[req[p].objectId] # redis[req[p].objectId]
                \/ StoredTag(req[p].objectId) = res'[p].etag]_vars

\* Two overlapping PUT/PATCH requests on one key with the same If-Match were
\* both answered 200; the first changed the record, so that its tag was no
\* longer the one the second carried, and the store holds the document of
\* the second, not that of the first.
C13_Witness ==
  \E p, q \in Procs :
    /\ p # q /\ pc[p] = "done" /\ pc[q] = "done" /\ last = p
    /\ pred[p] = NoProc /\ pred[q] = NoProc
    /\ req[p].op \in {"PUT", "PATCH"} /\ req[q].op \in {"PUT", "PATCH"}
    /\ req[p].op # req[q].op
    /\ req[p].objectId = req[q].objectId
    /\ req[p].ifMatch = req[q].ifMatch /\ req[p].ifMatch # NoHeader
    /\ res[p].status = 200 /\ res[q].status = 200
    /\ res[q].etag # req[p].ifMatch
    /\ res[q].data # res[p].data
    /\ Stored(req[p].objectId)
    /\ redis[req[p].objectId] = TextOf(res[p].data)

\* ------------------------------------------------------------------------
\* C14
\* ------------------------------------------------------------------------
\* C14 as claimed: the write of an authenticated POST never lands on a key
\* that has a record, so that of two POSTs with the same key, however they
\* interleave, only one stores its document and is answered 201.
C14_NoDuplicateCreation ==
  [][\A p \in Procs :
       Authenticated(p, "POST") /\ Resumes(p, "set")
       => ~Stored(KeyOf(req[p].body))]_vars

\* ------------------------------------------------------------------------
\* C15
\* ------------------------------------------------------------------------
\* C15 as claimed: a key without a record gets one only in the step in
\* which a POST of that key is answered 201; the write of a PUT or PATCH
\* never lands on a key that has no record, whatever DELETE it overlaps.
C15_CreatedByPostOnly ==
  [][\A key \in {"k1", "k2"} :
       ~Stored(key) /\ key \in DOMAIN redis'
       => \E p \in Procs :
            /\ Authenticated(p, "POST") /\ KeyOf(req[p].body) = key
            /\ Answers(p) /\ res'[p].status = 201]_vars

\* ------------------------------------------------------------------------
\* C16
\* ------------------------------------------------------------------------
\* The store calls of a request that has issued its read and nothing else,
\* and of one that has issued its read and the given write or removal.
OneRead == [NoCalls EXCEPT !.get = 1]

OneReadAnd(call) == [NoCalls EXCEPT !.get = 1, ![call] = 1]

\* The call that carries out an operation: del for DELETE, set otherwise.
WriteCall(op) == IF op = "DELETE" THEN "del" ELSE "set"

\* The decision is to proceed, by the record under the key of slot p's
\* request at the moment its read returns.
Proceeds(p) ==
  LET r == req[p]
      key == IF r.op = "POST" THEN KeyOf(r.body) ELSE r.objectId
  IN  CASE r.op = "POST" -> ~Stored(key)
        [] r.op = "PUT" -> Stored(key) /\ r.ifMatch = StoredTag(key)
        [] r.op = "PATCH" ->
             /\ Stored(key) /\ r.ifMatch = StoredTag(key)
             /\ validatePlan(Spread(JSONparse(redis[key]), r.body))
        [] r.op = "DELETE" -> Stored(key)
        [] OTHER -> FALSE

\* C16: a handler decides in the step in which its one store read returns,
\* having issued no other store call; when the decision is to proceed it
\* issues one call more, a set (POST, PUT, PATCH) or a del (DELETE), and
\* answers when that returns; otherwise it answers at once and has issued
\* the read only.  A GET never proceeds to a write.
C16_OneReadOneWrite ==
  /\ [](\A p \in Procs :
          /\ pc[p] \in {"idle", "verifyToken"} => calls[p] = NoCalls
          /\ pc[p] = "get" => calls[p] = OneRead
          /\ pc[p] \in {"set", "del"} =>
               pc[p] = WriteCall(req[p].op) /\ calls[p] = OneReadAnd(pc[p])
          /\ pc[p] = "done" =>
               CASE res[p].status \in {304, 409, 412} -> calls[p] = OneRead
                 [] res[p].status = 200 /\ req[p].op = "GET" -> calls[p] = OneRead
                 [] res[p].status = 400 /\ req[p].op = "PATCH" -> calls[p] = OneRead
                 [] res[p].status = 200 /\ req[p].op # "GET" ->
                      calls[p] = OneReadAnd("set")
                 [] res[p].status = 201 -> calls[p] = OneReadAnd("set")
                 [] res[p].status = 204 -> calls[p] = OneReadAnd("del")
                 [] res[p].status = 404 ->
                      \/ calls[p] = OneRead
                      \/ req[p].op = "DELETE" /\ calls[p] = OneReadAnd("del")
                 [] OTHER -> calls[p].get <= 1 /\ calls[p].set + calls[p].del <= 1)
  /\ [][\A p \in Procs :
          /\ Resumes(p, "get") =>
               IF Proceeds(p)
               THEN /\ pc'[p] = WriteCall(req[p].op)
                    /\ calls'[p] = OneReadAnd(pc'[p])
               ELSE Answers(p) /\ calls'[p] = OneRead
          /\ Resumes(p, "set") \/ Resumes(p, "del") =>
               Answers(p) /\ calls'[p] = calls[p]]_vars

\* A DELETE was answered 204 after one read and one del, and the request
\* before it was refused with 412 after one read.
C16_Witness ==
  \E p, q \in Procs :
    /\ Follows(p, q)
    /\ req[p].op = "DELETE" /\ res[p].status = 204
    /\ calls[p] = OneReadAnd("del")
    /\ res[q].status = 412 /\ calls[q] = OneRead

\* ------------------------------------------------------------------------
\* C17
\* ------------------------------------------------------------------------
\* C17: a request without a Bearer Authorization header is answered 401 and
\* one whose token the identity provider rejects is answered 403; neither
\* ever awaits a store call, has issued none when it is answered, and none
\* of its steps changes the store.
C17_AuthenticationGate ==
  /\ [](\A p \in Procs :
          pc[p] # "idle" /\ req[p].auth # "good" =>
            /\ pc[p] \in {"verifyToken", "done"}
            /\ calls[p] = NoCalls
            /\ pc[p] = "done" =>
                 res[p].status = (IF req[p].auth = "none" THEN 401 ELSE 403))
  /\ [][\A p \in Procs :
          StepsOf(p) /\ req'[p].auth # "good" => redis' = redis]_vars

\* With a record under k1, a DELETE of k1 without Authorization header was
\* answered 401 and the next, with a rejected token, 403; the record is
\* still there.
C17_Witness ==
  \E p, q \in Procs :
    /\ Follows(p, q)
    /\ req[q].op = "DELETE" /\ req[q].auth = "none" /\ res[q].status = 401
    /\ req[p].op = "DELETE" /\ req[p].auth = "bad" /\ res[p].status = 403
    /\ req[p].objectId = "k1" /\ Stored("k1")
    /\ calls[p] = NoCalls /\ calls[q] = NoCalls

\* ------------------------------------------------------------------------
\* C18
\* ------------------------------------------------------------------------
\* The key a request is addressed to: the objectId of the body for a POST,
\* the objectId of the path otherwise.
AddressedKey(r) == IF r.op = "POST" THEN KeyOf(r.body) ELSE r.objectId

\* C18: a step of an authenticated request addressed to one key leaves
\* every other key as it was: present with the same text (hence the same
\* tag), or absent; whatever the other slot is doing.
C18_KeyIndependence ==
  [][\A p \in Procs :
       StepsOf(p) /\ req'[p].auth = "good"
       => \A key \in (DOMAIN redis \cup DOMAIN redis') \ {AddressedKey(req'[p])} :
            /\ key \in DOMAIN redis /\ key \in DOMAIN redis'
            /\ redis'[key] = redis[key]]_vars

\* With Plan("k2", 1) stored under k2, a PATCH of k1 that set the objectId of
\* the document to "k2" was answered 200: the merged document is under k1
\* and k2 holds what it held.
C18_Witness ==
  \E p \in Procs :
    /\ pc[p] = "done" /\ Authenticated(p, "PATCH") /\ res[p].status = 200
    /\ req[p].objectId = "k1" /\ KeyOf(res[p].data) = "k2"
    /\ Stored("k1") /\ redis["k1"] = TextOf(res[p].data)
    /\ Stored("k2") /\ redis["k2"] = TextOf(Plan("k2", 1))

\* ------------------------------------------------------------------------
\* C19
\* ------------------------------------------------------------------------
\* The top-level field names of an object.
Fields(o) == {o.v[i][1] : i \in 1..Len(o.v)}

\* m has the fields of p and u, each with the value u gives it when u has
\* the field, and the value p gives it otherwise.
ShallowMergeOf(m, p, u) ==
  /\ Fields(m) = Fields(p) \cup Fields(u)
  /\ \A f \in Fields(m) :
       Prop(m, f) = IF HasKey(u, f) THEN Prop(u, f) ELSE Prop(p, f)

\* C19: the document an authenticated PATCH goes on to store is the shallow
\* merge of the document it read and its body (a nested value of the body
\* is taken whole), and when its write returns the store holds under the
\* key the text of exactly that document, which is also the body of the
\* 200 answer.
C19_ShallowMerge ==
  [][\A p \in Procs :
       Authenticated(p, "PATCH") =>
         /\ Resumes(p, "get") /\ pc'[p] = "set" =>
              ShallowMergeOf(local'[p], JSONparse(redis[req[p].objectId]),
                             req[p].body)
         /\ Resumes(p, "set") =>
              /\ res'[p].status = 200
              /\ JSONparse(redis'[req[p].objectId]) = local[p]
              /\ res'[p].data = local[p]]_vars

\* A PATCH with a planCostShares of copay 3 on Plan("k1", 1) was answered
\* 200; the stored document has the planCostShares of the body and the other
\* fields of Plan("k1", 1).
C19_Witness ==
  \E p \in Procs :
    /\ pc[p] = "done" /\ Authenticated(p, "PATCH") /\ res[p].status = 200
    /\ Stored(req[p].objectId)
    /\ HasKey(req[p].body, "planCostShares")
    /\ LET stored == JSONparse(redis[req[p].objectId])
       IN  /\ Prop(stored, "planCostShares") = Prop(req[p].body, "planCostShares")
           /\ Prop(stored, "planCostShares") # Prop(Plan("k1", 1), "planCostShares")
           /\ \A f \in Fields(stored) \ {"planCostShares"} :
                Prop(stored, f) = Prop(Plan("k1", 1), f)

\* ------------------------------------------------------------------------
\* C20
\* ------------------------------------------------------------------------
\* C20: a 500 is sent only by a handler that awaits a store call, in one
\* step that issues no store call, changes nothing in the store and carries
\* no tag and no document; the request has then issued its read and at most
\* the one write or removal of its operation, each once.  A store call is
\* issued only on going to await it, never again while it is awaited, and a
\* request that has answered takes no further step: the slot's next step is
\* the arrival of another request.
C20_StoreFailure ==
  /\ [][\A p \in Procs :
          /\ pc'[p] = "done" /\ res'[p].status = 500 /\ pc[p] # "done" =>
               /\ pc[p] \in {"get", "set", "del"}
               /\ calls'[p] = calls[p] /\ calls[p][pc[p]] = 1
               /\ redis' = redis
               /\ res'[p].etag = NoHeader /\ res'[p].data = Undefined
          /\ calls'[p] # calls[p] /\ calls'[p] # NoCalls =>
               /\ pc'[p] # pc[p] /\ pc'[p] \in {"get", "set", "del"}
               /\ calls'[p] = [calls[p] EXCEPT ![pc'[p]] = 1]
          /\ pc[p] = "done" /\ (pc'[p] # "done" \/ res'[p] # res[p]) =>
               calls'[p] = NoCalls /\ pc'[p] \in {"verifyToken", "done"}]_vars
  /\ [](\A p \in Procs :
          pc[p] = "done" /\ res[p].status = 500 =>
            calls[p] \in {OneRead, OneReadAnd(WriteCall(req[p].op))})

\* The write of a PUT failed after its read had succeeded: answered 500
\* after one read and one set, and the record is not the PUT's body.
C20_Witness ==
  \E p \in Procs :
    /\ pc[p] = "done" /\ req[p].op = "PUT" /\ res[p].status = 500
    /\ calls[p] = OneReadAnd("set")
    /\ Stored(req[p].objectId)
    /\ redis[req[p].objectId] # TextOf(req[p].body)

\* ------------------------------------------------------------------------
\* C21
\* ------------------------------------------------------------------------
\* p's GET came next after q's GET of the same key, and both got their
\* store read.
RepeatsGet(p, q) ==
  /\ Follows(p, q)
  /\ Authenticated(q, "GET") /\ Authenticated(p, "GET")
  /\ req[p].objectId = req[q].objectId
  /\ res[p].status # 500 /\ res[q].status # 500

\* C21: the ETag of a GET is the tag of the text stored under the key when
\* its read returns, and nothing else; the body of a 200 is that text
\* parsed.  Two GETs of a key with no request between them therefore agree:
\* both 404, or both answered with the same ETag and, where both are 200,
\* with the same body.
C21_TagDeterminism ==
  /\ [][\A p \in Procs :
          /\ Authenticated(p, "GET") /\ Resumes(p, "get")
          /\ Stored(req[p].objectId)
          => /\ res'[p].status \in {200, 304}
             /\ res'[p].etag = Header(generateETag(redis[req[p].objectId]))
             /\ res'[p].status = 200 =>
                  res'[p].data = JSONparse(redis[req[p].objectId])]_vars
  /\ [](\A p, q \in Procs :
          RepeatsGet(p, q) =>
            /\ res[p].status = 404 <=> res[q].status = 404
            /\ res[p].etag = res[q].etag
            /\ res[p].status = 200 /\ res[q].status = 200 =>
                 res[p].data = res[q].data)

\* A GET was answered 200 and the GET of the same key that came next, with
\* the tag as If-None-Match, 304 with the same ETag.
C21_Witness ==
  \E p, q \in Procs :
    /\ RepeatsGet(p, q)
    /\ res[q].status = 200 /\ res[q].etag # NoHeader
    /\ req[p].ifNoneMatch = res[q].etag
    /\ res[p].status = 304 /\ res[p].etag = res[q].etag

\* ------------------------------------------------------------------------
\* C22
\* ------------------------------------------------------------------------
InFlight(p) == pc[p] \in {"verifyToken", "get", "set", "del"}

\* C22: whatever the other slot is doing, a request that awaits a call can
\* take the step of that call returning; a request is answered only while
\* it is in flight, and once answered its response stays until another
\* request arrives on the slot; and every request in flight is answered in
\* the end.
C22_NonBlockingProgress ==
  /\ [](\A p \in Procs :
          InFlight(p) => ENABLED (Settles(p) /\ Resumes(p, pc[p])))
  /\ [][\A p \in Procs :
          /\ res'[p] # res[p] /\ res'[p] # NoResponse =>
               \/ InFlight(p) /\ pc'[p] = "done"
               \/ ~InFlight(p) /\ res'[p].status = 401
                    /\ calls'[p] = NoCalls /\ last' = p
          /\ InFlight(p) /\ pc'[p] = "done" => res[p] = NoResponse]_vars
  /\ \A p \in Procs : InFlight(p) ~> pc[p] = "done"

\* Both slots await their write at once, and the one that arrived second
\* was answered first.
C22_Witness ==
  \E p, q \in Procs :
    /\ pc[p] = "done" /\ res[p].status \in {200, 201} /\ req[p].op # "GET"
    /\ pred[p] = NoProc
    /\ pc[q] = "set" /\ pred[q] = NoProc
    /\ AddressedKey(req[p]) = AddressedKey(req[q])

\* ------------------------------------------------------------------------
\* C23
\* ------------------------------------------------------------------------
\* C23: the text stored under every key parses to a document that passes
\* the plan schema; and the text a POST, PUT or PATCH writes is that of the
\* document it answers with, which passes the schema.
C23_StoredDocumentsValid ==
  /\ [](\A key \in DOMAIN redis : validatePlan(JSONparse(redis[key])))
  /\ [][\A p \in Procs :
          Resumes(p, "set") =>
            /\ validatePlan(res'[p].data)
            /\ \E key \in DOMAIN redis' : redis'[key] = TextOf(res'[p].data)
            /\ \A key \in DOMAIN redis' :
                 redis'[key] = TextOf(res'[p].data)
                 \/ (key \in DOMAIN redis /\ redis'[key] = redis[key])]_vars

\* A request was refused with 400 and the PATCH that came next stored a
\* merged document, other than Plan("k1", 1), that passes the schema.
C23_Witness ==
  \E p, q \in Procs :
    /\ Follows(p, q)
    /\ res[q].status = 400
    /\ Authenticated(p, "PATCH") /\ res[p].status = 200
    /\ Stored(req[p].objectId)
    /\ redis[req[p].objectId] = TextOf(res[p].data)
    /\ res[p].data # Plan("k1", 1)
    /\ validatePlan(JSONparse(redis[req[p].objectId]))

\* ------------------------------------------------------------------------
\* C24
\* ------------------------------------------------------------------------
\* C24 as claimed: the document stored under a key carries that key as its
\* objectId, in every reachable state.
C24_KeyConsistency ==
  \A key \in DOMAIN redis : KeyOf(JSONparse(redis[key])) = key

\* ------------------------------------------------------------------------
\* C25
\* ------------------------------------------------------------------------
\* q's request wrote a document under a key and was answered 200 or 201;
\* p's PUT or PATCH of that key, carrying an If-Match, came next and got its
\* store read.
Overtaken(p, q) ==
  /\ Follows(p, q)
  /\ req[q].auth = "good" /\ req[q].op \in {"POST", "PUT", "PATCH"}
  /\ res[q].status \in {200, 201}
  /\ req[p].auth = "good" /\ req[p].op \in {"PUT", "PATCH"}
  /\ req[p].objectId = AddressedKey(req[q])
  /\ req[p].ifMatch # NoHeader
  /\ res[p].status # 500

\* C25 as claimed: a PUT or PATCH with If-Match: T that comes after another
\* PUT or PATCH of the key succeeded, T being the tag that writer carried
\* too (so that it was obtained before that write), is answered 412 and
\* the store keeps what the other writer wrote.
C25_OvertakenAlways412 ==
  \A p, q \in Procs :
    Overtaken(p, q) /\ req[q].op \in {"PUT", "PATCH"}
    /\ req[p].ifMatch = req[q].ifMatch
    => /\ res[p].status = 412
       /\ redis[req[p].objectId] = TextOf(res[q].data)

\* C25: when the tag such a request carries is not the tag of the document
\* the last writer stored, the request writes nothing, the store keeps the
\* writer's document, and the answer is 412, or 400 for a PUT whose body
\* fails the schema.  (When it is the tag of that document, because the
\* writes left the content the tag was computed from, the request is
\* treated as any request with the current tag.)
C25_OvertakeDetected ==
  \A p, q \in Procs :
    Overtaken(p, q) /\ req[p].ifMatch # res[q].etag
    => /\ Stored(req[p].objectId)
       /\ redis[req[p].objectId] = TextOf(res[q].data)
       /\ calls[p].set = 0
       /\ IF req[p].op = "PUT" /\ ~validatePlan(req[p].body)
          THEN res[p].status = 400
          ELSE res[p].status = 412

\* A PUT with the current tag stored another document, and the PATCH that
\* came next with the same tag was refused with 412.
C25_Witness ==
  \E p, q \in Procs :
    /\ Overtaken(p, q)
    /\ req[q].op = "PUT" /\ req[q].ifMatch = req[p].ifMatch
    /\ req[p].ifMatch # res[q].etag
    /\ req[p].op = "PATCH" /\ res[p].status = 412
    /\ redis[req[p].objectId] = TextOf(res[q].data)

\* ------------------------------------------------------------------------
\* C26
\* ------------------------------------------------------------------------
\* q's PUT or PATCH was answered 200; p's GET of the same key came next and
\* got its store read.
ReadsWritten(p, q) ==
  /\ Follows(p, q)
  /\ req[q].auth = "good" /\ req[q].op \in {"PUT", "PATCH"}
  /\ res[q].status = 200
  /\ Authenticated(p, "GET") /\ req[p].objectId = req[q].objectId
  /\ res[p].status # 500

\* C26: the GET that comes next after a PUT or PATCH answered 200 with ETag
\* T2 is answered with ETag T2; with status 304 and no body when its
\* If-None-Match is T2, and otherwise with status 200 and the document of
\* the PUT or PATCH response.
C26_ResponseTagIsStoredTag ==
  \A p, q \in Procs :
    ReadsWritten(p, q) =>
      /\ res[p].etag = res[q].etag
      /\ IF req[p].ifNoneMatch = res[q].etag
         THEN res[p].status = 304 /\ res[p].data = Undefined
         ELSE res[p].status = 200 /\ res[p].data = res[q].data

\* A PATCH changed the document and the GET that came next returned the tag
\* and the document of the PATCH response.
C26_Witness ==
  \E p, q \in Procs :
    /\ ReadsWritten(p, q)
    /\ req[q].op = "PATCH" /\ res[q].etag # req[q].ifMatch
    /\ res[p].status = 200
    /\ res[p].etag = res[q].etag /\ res[p].data = res[q].data

\* ------------------------------------------------------------------------
\* C27
\* ------------------------------------------------------------------------
\* C27: an authenticated PUT whose body fails the schema never awaits a
\* store call and has issued none when it is answered; its answer is 400,
\* whether or not the key has a record and whatever its If-Match.
C27_PutValidatesFirst ==
  \A p \in Procs :
    /\ pc[p] # "idle" /\ Authenticated(p, "PUT")
    /\ ~validatePlan(req[p].body)
    => /\ pc[p] \in {"verifyToken", "done"}
       /\ calls[p] = NoCalls
       /\ pc[p] = "done" => res[p].status = 400

\* With a record under k1, two PUTs of k1 with a body that fails the schema
\* were answered 400 one after the other: one without If-Match, the other
\* with the current tag.
C27_Witness ==
  \E p, q \in Procs :
    /\ Follows(p, q)
    /\ Authenticated(q, "PUT") /\ Authenticated(p, "PUT")
    /\ ~validatePlan(req[q].body) /\ ~validatePlan(req[p].body)
    /\ res[q].status = 400 /\ res[p].status = 400
    /\ req[q].ifMatch = NoHeader
    /\ Stored(req[p].objectId) /\ req[p].ifMatch = StoredTag(req[p].objectId)
    /\ calls[p] = NoCalls /\ calls[q] = NoCalls

====
